---------------------------- MODULE Spec2Model ----------------------------
(***************************************************************************)
(* Model of the notebook ch2.ipynb (conditional probability examples):     *)
(*   - the two-children cells (elder girl / at least one girl),            *)
(*   - the never-switch Monty Hall cell,                                   *)
(*   - the function monty(simulate) and                                    *)
(*   - the always-switch aggregation loop that calls it.                   *)
(*                                                                         *)
(* A numpy array is a sequence.  A numpy or Python scalar that the code    *)
(* later overwrites with an array (chosen, montydoor) is a sequence of     *)
(* length 1: in every operation the code applies to them (!=, == against   *)
(* a scalar or an array of three doors, truth value) a scalar and an array *)
(* of one element broadcast alike.                                         *)
(*                                                                         *)
(* The trial count n is a literal (10**5) in the cells; the model runs the *)
(* same cells with n drawn from 0..MaxFamilies / 0..MaxTrials.             *)
(***************************************************************************)
EXTENDS Integers, Sequences, FiniteSets

\* Largest number of families drawn by the two-children cell.
MaxFamilies == 3
\* Largest number of trials of the never-switch cell and the aggregation loop.
MaxTrials == 3

VARIABLES
    cell,       \* the cell (or call) under execution, "..._done" when it is over
    n,          \* the global n of the cell under execution
    child1,     \* global child1
    child2,     \* global child2
    n_b,        \* global n_b
    n_ab,       \* global n_ab
    cardoors,   \* the global array cardoor of the never-switch cell
    out,        \* what the cells printed, in order
    simulate,   \* monty's parameter
    pc,         \* position inside monty(): idle, pick, input, reveal, switch, announce, returned, raised
    cardoor,    \* monty's local cardoor
    chosen,     \* monty's local chosen
    montydoor,  \* monty's local montydoor
    reply,      \* monty's local reply
    ret,        \* the values monty() returned to its caller in this call
    err,        \* the exception that ended monty(), "" when none
    results,    \* the global list results of the aggregation loop
    i           \* the loop variable of the aggregation loop (iterations started)

vars == <<cell, n, child1, child2, n_b, n_ab, cardoors, out, simulate, pc,
          cardoor, chosen, montydoor, reply, ret, err, results, i>>

twoChildrenVars == <<child1, child2, n_b, n_ab>>
montyVars == <<simulate, pc, cardoor, chosen, montydoor, reply, ret, err>>

----------------------------------------------------------------------------
\* numpy and Python primitives the cells use

\* np.arange(k): [0, 1, ..., k-1]
arange(k) == [j \in 1..k |-> j - 1]

\* The arrays of length len that choice(population, len, replace=True) can return.
choiceN(population, len) == [1..len -> {population[j] : j \in 1..Len(population)}]

\* arr == v for an array arr and a scalar v: the boolean mask.
EqMask(arr, v) == [j \in 1..Len(arr) |-> arr[j] = v]

\* arr != v for an array arr and a scalar v: the boolean mask.
NeMask(arr, v) == [j \in 1..Len(arr) |-> arr[j] # v]

\* np.all([a, b], axis=0) for two masks of the same length.
AllAxis0(a, b) == [j \in 1..Len(a) |-> a[j] /\ b[j]]

\* np.any([a, b], axis=0) for two masks of the same length.
AnyAxis0(a, b) == [j \in 1..Len(a) |-> a[j] \/ b[j]]

\* np.sum(mask): the number of True entries, summed left to right.
RECURSIVE npsum(_)
npsum(mask) ==
    IF Len(mask) = 0 THEN 0
    ELSE (IF mask[1] THEN 1 ELSE 0) + npsum(Tail(mask))

\* arr[mask]: the entries of arr where mask is True, in order.
RECURSIVE Take(_, _)
Take(arr, mask) ==
    IF Len(arr) = 0 THEN <<>>
    ELSE (IF mask[1] THEN <<arr[1]>> ELSE <<>>) \o Take(Tail(arr), Tail(mask))

\* num / float(den) for a numpy scalar num: a zero denominator raises nothing,
\* numpy yields nan (0/0) or inf with a RuntimeWarning.
Divide(num, den) ==
    IF den # 0 THEN [kind |-> "float", num |-> num, den |-> den]
    ELSE IF num = 0 THEN [kind |-> "nan", num |-> num, den |-> den]
    ELSE [kind |-> "inf", num |-> num, den |-> den]

----------------------------------------------------------------------------
\* The two-children cells

\* N(B) of the first cell: np.sum(child1 == 0)
ElderGirlCount(c1) == npsum(EqMask(c1, 0))

\* Mutation of BothGirlsCount: np.any in place of np.all.
BothGirlsCountAny(c1, c2) == npsum(AnyAxis0(EqMask(c1, 0), EqMask(c2, 0)))

\* N(A and B): np.sum(np.all([child1 == 0, child2 == 0], axis=0))
BothGirlsCount(c1, c2) == npsum(AllAxis0(EqMask(c1, 0), EqMask(c2, 0)))

\* N(B) of the second cell: np.sum(np.any([child1 == 0, child2 == 0], axis=0))
AtLeastOneGirlCount(c1, c2) == npsum(AnyAxis0(EqMask(c1, 0), EqMask(c2, 0)))

\* The elder-girl cell: draws child1 and child2, counts, prints n_ab / float(n_b).
ElderGirlCell ==
    /\ cell = "elder_girl"
    /\ \E k \in 0..MaxFamilies :
          /\ n' = k
          /\ \E c1 \in choiceN(arange(2), k), c2 \in choiceN(arange(2), k) :
                /\ child1' = c1
                /\ child2' = c2
                /\ n_b' = ElderGirlCount(c1)
                /\ n_ab' = BothGirlsCount(c1, c2)
                /\ out' = Append(out, Divide(BothGirlsCount(c1, c2),
                                             ElderGirlCount(c1)))
    /\ cell' = "at_least_one_girl"
    /\ UNCHANGED <<cardoors, results, i>>
    /\ UNCHANGED montyVars

\* The at-least-one-girl cell: recounts on the same child1, child2 and prints.
AtLeastOneGirlCell ==
    /\ cell = "at_least_one_girl"
    /\ n_b' = AtLeastOneGirlCount(child1, child2)
    /\ n_ab' = BothGirlsCount(child1, child2)
    /\ out' = Append(out, Divide(BothGirlsCount(child1, child2),
                                 AtLeastOneGirlCount(child1, child2)))
    /\ cell' = "two_children_done"
    /\ UNCHANGED <<n, child1, child2, cardoors, results, i>>
    /\ UNCHANGED montyVars

----------------------------------------------------------------------------
\* The never-switch cell

\* np.sum(cardoor == 0): the trials where the car is behind door 0, the door the
\* contestant is assumed to choose and keep.
NeverSwitchWins(cd) == npsum(EqMask(cd, 0))

\* The never-switch cell: draws the car door of n trials and prints the fraction
\* of trials with the car behind door 0.
NeverSwitchCell ==
    /\ cell = "never_switch"
    /\ \E k \in 0..MaxTrials :
          /\ n' = k
          /\ \E cd \in choiceN(arange(3), k) :
                /\ cardoors' = cd
                /\ out' = Append(out, Divide(NeverSwitchWins(cd), k))
    /\ cell' = "never_switch_done"
    /\ UNCHANGED <<results, i>>
    /\ UNCHANGED twoChildrenVars
    /\ UNCHANGED montyVars

----------------------------------------------------------------------------
\* monty(simulate)

\* doors = np.arange(3)
doors == arange(3)

\* Whether arr != val broadcasts: val is a scalar, an array of one element or an
\* array as long as arr.  Otherwise numpy cannot compare them elementwise and the
\* np.all over the result raises.
Broadcasts(arr, val) == Len(val) \in {1, Len(arr)}

\* arr != val where val broadcasts against arr.
NeBroadcast(arr, val) ==
    IF Len(val) = 1 THEN NeMask(arr, val[1])
    ELSE [j \in 1..Len(arr) |-> arr[j] # val[j]]

\* The text a contestant may type at 'Pick a door, any door!'.
TypedChoices ==
    { <<"0">>, <<"1">>, <<"2">>, <<"3">>, <<"-", "1">>, <<"x">>, <<>> }

\* The strings input() may hand back at 'Would you like to switch (y/n)?'.
TypedReplies ==
    { <<"y">>, <<"y", "e", "s">>, <<"n">>, <<"n", "o">>, <<"m">>, <<>> }

DigitChars == <<"0", "1", "2", "3", "4", "5", "6", "7", "8", "9">>

IsDigit(c) == \E k \in 1..Len(DigitChars) : DigitChars[k] = c

DigitValue(c) == (CHOOSE k \in 1..Len(DigitChars) : DigitChars[k] = c) - 1

\* The digits of text once an optional sign is taken off.
Unsigned(text) ==
    IF Len(text) > 0 /\ text[1] \in {"+", "-"} THEN Tail(text) ELSE text

\* Whether int(text) returns: an optional sign and at least one digit.
\* Otherwise int raises ValueError.
IntParses(text) ==
    /\ Len(Unsigned(text)) > 0
    /\ \A k \in 1..Len(Unsigned(text)) : IsDigit(Unsigned(text)[k])

RECURSIVE DecimalValue(_)
DecimalValue(digits) ==
    IF Len(digits) = 0 THEN 0
    ELSE 10 * DecimalValue(SubSeq(digits, 1, Len(digits) - 1))
         + DigitValue(digits[Len(digits)])

\* int(text) for a text that parses.
IntOf(text) ==
    IF Len(text) > 0 /\ text[1] = "-" THEN 0 - DecimalValue(Unsigned(text))
    ELSE DecimalValue(Unsigned(text))

\* Monty's door when the player's door is not the car door:
\* doors[np.all([doors != chosen, doors != cardoor], axis=0)]
RevealForced(ch, car) ==
    Take(doors, AllAxis0(NeBroadcast(doors, ch), NeBroadcast(doors, car)))

\* Mutation of RevealFree: Monty always opens the first of the other doors.
RevealFreeFirst(ch) == { <<Take(doors, NeBroadcast(doors, ch))[1]>> }

\* Monty's door when the player's door is the car door: the doors that
\* choice(doors[doors != chosen]) can return.
RevealFree(ch) ==
    LET others == Take(doors, NeBroadcast(doors, ch))
    IN  { <<others[k]>> : k \in 1..Len(others) }

\* The doors Monty may open.
RevealChoices(ch, car) ==
    IF ch # car THEN {RevealForced(ch, car)} ELSE RevealFree(ch)

\* Mutation of SwitchDoor: np.any in place of np.all.
SwitchDoorAny(ch, monty) ==
    Take(doors, AnyAxis0(NeBroadcast(doors, ch), NeBroadcast(doors, monty)))

\* Mutation of SwitchDoor: the player keeps the door.
SwitchDoorStay(ch, monty) == ch

\* The door the player switches to:
\* doors[np.all([doors != chosen, doors != montydoor], axis=0)]
SwitchDoor(ch, monty) ==
    Take(doors, AllAxis0(NeBroadcast(doors, ch), NeBroadcast(doors, monty)))

\* Whether the reply is taken as 'yes': reply[0] == 'y'.
SaysYes(text) == text[1] = "y"

\* Mutation of Won: the two return branches swapped.
WonSwapped(ch, car) == ch[1] # car[1]

\* The truth value of chosen == cardoor.
Won(ch, car) == ch[1] = car[1]

\* cardoor = choice(doors, 1)[0]
PickCar ==
    /\ pc = "pick"
    /\ \E d \in 1..Len(doors) : cardoor' = <<doors[d]>>
    /\ pc' = "input"
    /\ UNCHANGED <<cell, n, cardoors, out, simulate, chosen, montydoor, reply, ret,
                   err, results, i>>
    /\ UNCHANGED twoChildrenVars

\* simulate: chosen = 0
ChooseFixed ==
    /\ pc = "input"
    /\ simulate
    /\ chosen' = <<0>>
    /\ pc' = "reveal"
    /\ UNCHANGED <<cell, n, cardoors, out, simulate, cardoor, montydoor, reply, ret,
                   err, results, i>>
    /\ UNCHANGED twoChildrenVars

\* What the read of the door raises on a text that is no number: ValueError from
\* int() where input() returns the text (Python 3), NameError or SyntaxError from
\* input() itself where it evaluates the text (Python 2, the notebook's kernel).
ParseErrors == {"ValueError", "NameError", "SyntaxError"}

\* not simulate: chosen = int(input(...)); the read raises on a text that is no
\* number, any number is accepted.
ChooseTyped ==
    /\ pc = "input"
    /\ ~simulate
    /\ \E text \in TypedChoices :
          IF IntParses(text)
          THEN /\ chosen' = <<IntOf(text)>>
               /\ pc' = "reveal"
               /\ err' = err
          ELSE /\ chosen' = chosen
               /\ pc' = "raised"
               /\ err' \in ParseErrors
    /\ UNCHANGED <<cell, n, cardoors, out, simulate, cardoor, montydoor, reply,
                   ret, results, i>>
    /\ UNCHANGED twoChildrenVars

\* Pick Monty's door.
Reveal ==
    /\ pc = "reveal"
    /\ montydoor' \in RevealChoices(chosen, cardoor)
    /\ pc' = "switch"
    /\ UNCHANGED <<cell, n, cardoors, out, simulate, cardoor, chosen, reply, ret,
                   err, results, i>>
    /\ UNCHANGED twoChildrenVars

\* simulate: always switch.
SwitchAlways ==
    /\ pc = "switch"
    /\ simulate
    /\ chosen' = SwitchDoor(chosen, montydoor)
    /\ pc' = "announce"
    /\ UNCHANGED <<cell, n, cardoors, out, simulate, cardoor, montydoor, reply, ret,
                   err, results, i>>
    /\ UNCHANGED twoChildrenVars

\* not simulate: print Monty's door, read the reply, switch when it starts with
\* 'y'.  reply[0] raises IndexError on an empty reply; the comparison of the three
\* doors with a montydoor of two doors cannot be broadcast and raises ValueError.
SwitchAsked ==
    /\ pc = "switch"
    /\ ~simulate
    /\ \E typed \in TypedReplies :
          /\ reply' = typed
          /\ IF Len(typed) = 0
             THEN /\ chosen' = chosen
                  /\ pc' = "raised"
                  /\ err' = "IndexError"
             ELSE IF ~SaysYes(typed)
             THEN /\ chosen' = chosen
                  /\ pc' = "announce"
                  /\ err' = err
             ELSE IF Broadcasts(doors, montydoor)
             THEN /\ chosen' = SwitchDoor(chosen, montydoor)
                  /\ pc' = "announce"
                  /\ err' = err
             ELSE /\ chosen' = chosen
                  /\ pc' = "raised"
                  /\ err' = "ValueError"
    /\ UNCHANGED <<cell, n, cardoors, out, simulate, cardoor, montydoor, ret,
                   results, i>>
    /\ UNCHANGED twoChildrenVars

\* Announce the result of the game: return True or False.
Announce ==
    /\ pc = "announce"
    /\ ret' = Append(ret, Won(chosen, cardoor))
    /\ pc' = "returned"
    /\ UNCHANGED <<cell, n, cardoors, out, simulate, cardoor, chosen, montydoor,
                   reply, err, results, i>>
    /\ UNCHANGED twoChildrenVars

----------------------------------------------------------------------------
\* The callers of monty

\* A call monty(simulate=s) made on its own.
DirectCall ==
    /\ cell = "monty"
    /\ pc = "idle"
    /\ \E s \in BOOLEAN : simulate' = s
    /\ pc' = "pick"
    /\ UNCHANGED <<cell, n, cardoors, out, cardoor, chosen, montydoor, reply, ret,
                   err, results, i>>
    /\ UNCHANGED twoChildrenVars

\* The call made on its own is over: monty returned or raised.
DirectCallEnds ==
    /\ cell = "monty"
    /\ pc \in {"returned", "raised"}
    /\ cell' = "monty_done"
    /\ UNCHANGED <<n, cardoors, out, results, i>>
    /\ UNCHANGED twoChildrenVars
    /\ UNCHANGED montyVars

\* Mutation of AppendResult: the list is rebuilt from the last outcome.
AppendResultOnly(res, r) == <<r>>

\* results.append(r)
AppendResult(res, r) == Append(res, r)

\* The frequency the loop prints: np.sum(results) / float(n)
Frequency(res, k) == Divide(npsum(res), k)

\* The head of the aggregation cell: n = ..., results = []
AggregateStart ==
    /\ cell = "aggregate"
    /\ \E k \in 0..MaxTrials : n' = k
    /\ results' = <<>>
    /\ i' = 0
    /\ cell' = "aggregate_loop"
    /\ UNCHANGED <<cardoors, out>>
    /\ UNCHANGED twoChildrenVars
    /\ UNCHANGED montyVars

\* for i in range(n): the next iteration calls monty(simulate=True) in a fresh frame.
LoopCall ==
    /\ cell = "aggregate_loop"
    /\ pc = "idle"
    /\ i < n
    /\ i' = i + 1
    /\ simulate' = TRUE
    /\ pc' = "pick"
    /\ UNCHANGED <<cell, n, cardoors, out, cardoor, chosen, montydoor, reply, ret,
                   err,
                   results>>
    /\ UNCHANGED twoChildrenVars

\* results.append(monty(simulate=True)): the call returned, its frame is dropped.
LoopAppend ==
    /\ cell = "aggregate_loop"
    /\ pc = "returned"
    /\ results' = AppendResult(results, ret[1])
    /\ pc' = "idle"
    /\ cardoor' = <<>>
    /\ chosen' = <<>>
    /\ montydoor' = <<>>
    /\ reply' = <<>>
    /\ ret' = <<>>
    /\ UNCHANGED <<cell, n, cardoors, out, simulate, err, i>>
    /\ UNCHANGED twoChildrenVars

\* print(np.sum(results)/float(n)) once the loop is over.
LoopPrint ==
    /\ cell = "aggregate_loop"
    /\ pc = "idle"
    /\ i = n
    /\ out' = Append(out, Frequency(results, n))
    /\ cell' = "aggregate_done"
    /\ UNCHANGED <<n, cardoors, results, i>>
    /\ UNCHANGED twoChildrenVars
    /\ UNCHANGED montyVars

----------------------------------------------------------------------------
\* The lists a run of the aggregation cell can have left in the global results.
StaleResults == UNION { [1..k -> BOOLEAN] : k \in 0..MaxTrials }

\* A kernel about to run one of the programs of the notebook.  The globals of the
\* other cells are not set; results may hold what an earlier run of the
\* aggregation cell left.
Init ==
    /\ cell \in {"elder_girl", "never_switch", "monty", "aggregate"}
    /\ n = 0
    /\ child1 = <<>>
    /\ child2 = <<>>
    /\ n_b = 0
    /\ n_ab = 0
    /\ cardoors = <<>>
    /\ out = <<>>
    /\ simulate = TRUE
    /\ pc = "idle"
    /\ cardoor = <<>>
    /\ chosen = <<>>
    /\ montydoor = <<>>
    /\ reply = <<>>
    /\ ret = <<>>
    /\ err = ""
    /\ results \in (IF cell = "aggregate" THEN StaleResults ELSE {<<>>})
    /\ i = 0

Next ==
    \/ ElderGirlCell
    \/ AtLeastOneGirlCell
    \/ NeverSwitchCell
    \/ DirectCall
    \/ DirectCallEnds
    \/ AggregateStart
    \/ LoopCall
    \/ LoopAppend
    \/ LoopPrint
    \/ PickCar
    \/ ChooseFixed
    \/ ChooseTyped
    \/ Reveal
    \/ SwitchAlways
    \/ SwitchAsked
    \/ Announce

Spec == Init /\ [][Next]_vars

\* The interpreter keeps running the cell it was given, and the contestant
\* answers each prompt.
FairSpec == Spec /\ WF_vars(Next)

----------------------------------------------------------------------------
\* Properties

DoorSet == {doors[k] : k \in 1..Len(doors)}

\* The prompt asks for y or n.
YesNoReplies == { <<"y">>, <<"y", "e", "s">>, <<"n">>, <<"n", "o">> }

\* C1: once Monty has opened a door, in simulation and in interactive mode alike,
\* montydoor is exactly one door of {0,1,2}, different from the car door and from
\* the player's door at that time.
RevealedDoorIsOneGoatDoor ==
    pc = "switch" =>
        /\ Len(montydoor) = 1
        /\ montydoor[1] \in DoorSet
        /\ montydoor # cardoor
        /\ montydoor # chosen

\* C2: a step of monty() in which the player switches (always when simulating, on
\* a reply that starts with y otherwise) leaves chosen the one door of {0,1,2}
\* that is neither the door chosen before the step nor Monty's door.
SwitchedToTheOtherDoor ==
    [][ ( /\ pc = "switch"
          /\ pc' = "announce"
          /\ (simulate \/ (Len(reply') > 0 /\ reply'[1] = "y")) )
        => ( /\ Len(chosen') = 1
             /\ chosen'[1] \in DoorSet
             /\ chosen' # chosen
             /\ chosen' # montydoor
             /\ \A d \in DoorSet :
                   (<<d>> # chosen /\ <<d>> # montydoor) => chosen' = <<d>> ) ]_vars

\* Witness of C2: an interactive player on door 0 answered yes to Monty's door 1
\* and now holds door 2.
SwitchedWitness ==
    /\ pc = "announce"
    /\ ~simulate
    /\ reply = <<"y", "e", "s">>
    /\ montydoor = <<1>>
    /\ chosen = <<2>>

\* C3 as stated: every call of monty() ends by returning one boolean, True
\* exactly when the final chosen is the car door; no call ends otherwise.
EveryCallReturnsTheOutcome ==
    /\ pc # "raised"
    /\ pc = "returned" =>
          (Len(ret) = 1 /\ ret[1] \in BOOLEAN /\ (ret[1] <=> chosen = cardoor))

\* C3 amended: every call of monty() ends; a simulated call never raises; a call
\* that does not raise returns one boolean, True exactly when the final chosen
\* is the car door.
CallReturnsTheOutcomeOrRaises ==
    /\ [](pc = "returned" =>
            (Len(ret) = 1 /\ ret[1] \in BOOLEAN /\ (ret[1] <=> chosen = cardoor)))
    /\ [](pc = "raised" => (~simulate /\ ret = <<>>))
    /\ [](pc = "pick" => <>(pc \in {"returned", "raised"}))

\* Witness of C3: an interactive call that kept door 2 returned True.
ReturnedWitness ==
    /\ pc = "returned"
    /\ ~simulate
    /\ reply = <<"n">>
    /\ chosen = <<2>>
    /\ cardoor = <<2>>
    /\ ret = <<TRUE>>

\* C4: in interactive mode monty() goes on to the reveal only with a door of
\* {0,1,2}, and past the switch only with a yes or no reply; on anything else it
\* has raised.
InvalidInputIsRejected ==
    /\ (~simulate /\ pc \in {"reveal", "switch", "announce", "returned"})
          => chosen[1] \in DoorSet
    /\ (~simulate /\ pc \in {"announce", "returned"})
          => reply \in YesNoReplies

\* C5: with n = 0 the never-switch cell and the aggregation loop print no
\* frequency: they raise DegenerateTrialCount.
ZeroTrialsRaise ==
    (cell \in {"never_switch_done", "aggregate_done"} /\ n = 0)
        => (out = <<>> /\ err = "DegenerateTrialCount")

\* C6: a simulated call (door 0, always switch) returns True exactly when the car
\* is not behind door 0, whichever door Monty opened; the never-switch cell counts
\* exactly the trials with the car behind door 0; so of the three car doors two
\* win when switching and one wins when staying.
SwitchWinsUnlessCarBehindDoor0 ==
    /\ (simulate /\ pc = "returned") => (ret[1] <=> cardoor # <<0>>)
    /\ cell = "never_switch_done" =>
          /\ out[1].num = Cardinality({k \in 1..Len(cardoors) : cardoors[k] = 0})
          /\ out[1].den = n
          /\ Len(cardoors) = n
    /\ Cardinality({t \in DoorSet :
            \A m \in RevealChoices(<<0>>, <<t>>) :
                Won(SwitchDoor(<<0>>, m), <<t>>)}) = 2
    /\ Cardinality({t \in DoorSet :
            \E m \in RevealChoices(<<0>>, <<t>>) :
                Won(SwitchDoor(<<0>>, m), <<t>>)}) = 2
    /\ Cardinality({t \in DoorSet : NeverSwitchWins(<<t>>) = 1}) = 1

\* Witness of C6: the car behind door 0, Monty opened door 2, the switch lost.
SwitchLostWitness ==
    /\ simulate
    /\ pc = "returned"
    /\ cardoor = <<0>>
    /\ montydoor = <<2>>
    /\ ret = <<FALSE>>

\* C7: with a door of {0,1,2} chosen, Monty can open door d exactly when d is not
\* the chosen door and, if the chosen door is not the car door, not the car door
\* either: one door when chosen # cardoor, each of the two others when chosen =
\* cardoor.  With the car behind door 1 and door 0 chosen Monty opens door 2, the
\* switch goes to door 1 and the call returns True.
RevealRule ==
    /\ (pc = "reveal" /\ chosen[1] \in DoorSet) =>
          \A d \in DoorSet :
              (ENABLED (Reveal /\ montydoor' = <<d>>))
                  <=> (<<d>> # chosen /\ <<d>> # cardoor)
    /\ (pc = "reveal" /\ chosen[1] \in DoorSet) =>
          Cardinality({d \in DoorSet : ENABLED (Reveal /\ montydoor' = <<d>>)})
              = (IF chosen # cardoor THEN 1 ELSE 2)
    /\ (pc = "switch" /\ chosen[1] \in DoorSet) =>
          \E d \in DoorSet \ {chosen[1], cardoor[1]} : montydoor = <<d>>
    /\ (simulate /\ cardoor = <<1>>) =>
          /\ pc \in {"switch", "announce", "returned"} => montydoor = <<2>>
          /\ pc \in {"announce", "returned"} => chosen = <<1>>
          /\ pc = "returned" => ret = <<TRUE>>

\* Witness of C7: the player holds the car door 1 and Monty opened door 2, the
\* higher of the two doors he could open.
RevealWitness ==
    /\ pc = "switch"
    /\ chosen = <<1>>
    /\ cardoor = <<1>>
    /\ montydoor = <<2>>

\* C8: with n >= 1 families the two-children cells divide by a count that is
\* not zero.
DenominatorsAreNonzero ==
    (cell \in {"at_least_one_girl", "two_children_done"} /\ n >= 1)
        => \A k \in 1..Len(out) : out[k].den # 0

\* C9: the counts of the two-children cells are the numbers of families with an
\* elder girl, with at least one girl and with two girls; both ratios have the
\* two-girls count as numerator; two girls <= elder girl <= at least one girl <= n.
CountsAreTheirDefinitions ==
    LET elder == Cardinality({k \in 1..n : child1[k] = 0})
        atLeastOne == Cardinality({k \in 1..n : child1[k] = 0 \/ child2[k] = 0})
        both == Cardinality({k \in 1..n : child1[k] = 0 /\ child2[k] = 0})
    IN  /\ cell \in {"at_least_one_girl", "two_children_done"} =>
              /\ Len(child1) = n
              /\ Len(child2) = n
              /\ n_ab = both
              /\ out[1].num = both
              /\ out[1].den = elder
              /\ out[1].num <= out[1].den
              /\ out[1].den <= n
        /\ cell = "at_least_one_girl" => n_b = elder
        /\ cell = "two_children_done" =>
              /\ n_b = atLeastOne
              /\ out[2].num = both
              /\ out[2].num = out[1].num
              /\ out[2].den = atLeastOne
              /\ out[2].num <= out[1].den
              /\ out[1].den <= out[2].den
              /\ out[2].den <= n

\* Witness of C9: three families, one with two girls, two with an elder girl,
\* all three with a girl.
CountsWitness ==
    /\ cell = "two_children_done"
    /\ child1 = <<0, 1, 0>>
    /\ child2 = <<0, 0, 1>>
    /\ n_ab = 1
    /\ n_b = 3
    /\ out[1].den = 2

\* C10: the aggregation loop starts from an empty results list, calls monty()
\* n times one after the other, each call in a fresh frame, and appends what the
\* call returned: after k iterations results holds k booleans; the frequency
\* printed is the number of True results over n, between 0 and n.
AggregatorRunsNTrials ==
    /\ [](cell = "aggregate_loop" =>
            /\ i <= n
            /\ Len(results) = (IF pc = "idle" THEN i ELSE i - 1)
            /\ \A k \in 1..Len(results) : results[k] \in BOOLEAN
            /\ pc = "pick" =>
                  (cardoor = <<>> /\ chosen = <<>> /\ montydoor = <<>> /\ ret = <<>>)
            /\ pc = "returned" => Len(ret) = 1)
    /\ [](cell = "aggregate_done" =>
            /\ Len(results) = n
            /\ i = n
            /\ Len(out) = 1
            /\ out[1].num = Cardinality({k \in 1..n : results[k]})
            /\ out[1].den = n
            /\ 0 <= out[1].num
            /\ out[1].num <= n
            /\ n >= 1 => out[1].kind = "float")
    /\ [][(cell = "aggregate" /\ cell' = "aggregate_loop") => results' = <<>>]_vars
    /\ [][(cell = "aggregate_loop" /\ pc = "returned" /\ pc' = "idle")
            => (/\ Len(results') = Len(results) + 1
                /\ results'[Len(results')] = ret[1]
                /\ \A k \in 1..Len(results) : results'[k] = results[k])]_vars

\* Witness of C10: three trials done, two of them won, the frequency printed.
AggregatorWitness ==
    /\ cell = "aggregate_done"
    /\ n = 3
    /\ results = <<TRUE, FALSE, TRUE>>
    /\ out[1].num = 2

============================================================================
